---- MODULE Spec2Model ----
(***************************************************************************)
(* Model of @discosea/kitchen (src/src/instructionBuilder.js): the client  *)
(* side builder of createRecipe / cook / uncook instructions.              *)
(*                                                                         *)
(* The caller owns one cookedData object.  Every exported function is one  *)
(* action that runs the whole function on that object and records what it  *)
(* returned or threw in `result`; `orig` remembers the object as the       *)
(* caller handed it in, so that in-place changes can be observed.          *)
(*                                                                         *)
(* Conventions                                                             *)
(*   byte strings      sequences of 0..255                                 *)
(*   JS strings        sequences of Unicode code points                    *)
(*   JS values         [t |-> type tag, v |-> payload]                     *)
(*   addresses         [t |-> "key" | "bad" | "absent", k |-> name,        *)
(*                      b |-> raw bytes]; a base58 string and the          *)
(*                      PublicKey it decodes to are the same value, the    *)
(*                      decoding itself is @solana/web3.js                 *)
(*   BigInt            [neg |-> BOOLEAN, mag |-> little-endian bytes]      *)
(***************************************************************************)
EXTENDS Integers, Sequences, FiniteSets, TLC

VARIABLES
    pc,             \* "ready" before the call, "done" after it
    op,             \* the exported function that was called
    cookedData,     \* the caller's object, as it is now
    orig,           \* the caller's object, as it was before the call
    tokenAccounts,  \* useRecipe's third argument
    option,         \* useRecipe's fourth argument
    concatenatedData, \* findCookPDA's first argument
    result          \* what the call returned or threw

vars == <<pc, op, cookedData, orig, tokenAccounts, option, concatenatedData, result>>

----------------------------------------------------------------------------
(* Bounds of the model *)

MaxSeeds == 3
MaxSaltLen == 33
BigLen == 12

(* Program constants *)

SaltWidth == 32
PubkeyLen == 32
Decimals == 6
OpCreate == 1
OpCook == 2
OpUncook == 3
Mantissa == 53

----------------------------------------------------------------------------
(* Sequences *)

RECURSIVE Zeros(_)
Zeros(n) == IF n <= 0 THEN <<>> ELSE <<0>> \o Zeros(n - 1)

RECURSIVE Repeat(_, _)
Repeat(x, n) == IF n <= 0 THEN <<>> ELSE <<x>> \o Repeat(x, n - 1)

Min(a, b) == IF a <= b THEN a ELSE b

RECURSIVE SeqsUpTo(_, _)
SeqsUpTo(S, n) ==
    IF n = 0 THEN {<<>>}
    ELSE LET shorter == SeqsUpTo(S, n - 1)
         IN  shorter \cup {Append(s, x) : s \in {t \in shorter : Len(t) = n - 1}, x \in S}

----------------------------------------------------------------------------
(* Manual Borsh serialization helpers *)

RECURSIVE LittleEndian(_, _)
LittleEndian(n, w) ==
    IF w = 0 THEN <<>> ELSE <<n % 256>> \o LittleEndian(n \div 256, w - 1)

encodeU32(value) == LittleEndian(value, 4)

(* Buffer.from(str, "utf-8") / TextEncoder.encode of one code point. *)
Utf8Char(c) ==
    IF c < 128 THEN <<c>>
    ELSE IF c < 2048 THEN <<192 + (c \div 64), 128 + (c % 64)>>
    ELSE <<224 + (c \div 4096), 128 + ((c \div 64) % 64), 128 + (c % 64)>>

RECURSIVE Utf8(_)
Utf8(str) == IF str = <<>> THEN <<>> ELSE Utf8Char(Head(str)) \o Utf8(Tail(str))

encodeString(str) ==
    LET strBuffer == Utf8(str)
        lenBuffer == encodeU32(Len(strBuffer))
    IN  lenBuffer \o strBuffer

(* BigInt(value) of a non-negative number below 2^31. *)
BigIntOf(n) == [neg |-> FALSE, mag |-> LittleEndian(n, BigLen)]

(* writeBigUInt64LE: a RangeError outside 0 .. 2^64-1. *)
encodeU64Throws(big) ==
    \/ big.neg /\ \E i \in 1..BigLen : big.mag[i] # 0
    \/ \E i \in 9..BigLen : big.mag[i] # 0

encodeU64(big) == SubSeq(big.mag, 1, 8)

(* Mutant: the salt cut to 32 bytes but not padded. *)
saltBufferUnpadded(salt) == SubSeq(Utf8(salt), 1, Min(Len(Utf8(salt)), SaltWidth))

(* The fixed 32-byte salt field: Buffer.alloc(32), then copy of the first
   min(32, length) UTF-8 bytes. *)
saltBuffer(salt) ==
    LET saltBytes == Utf8(salt)
        n == Min(Len(saltBytes), SaltWidth)
    IN  SubSeq(saltBytes, 1, n) \o Zeros(SaltWidth - n)

----------------------------------------------------------------------------
(* JavaScript values *)

Absent == [t |-> "absent", v |-> <<>>]
Str(s) == [t |-> "string", v |-> s]
Num(n) == [t |-> "number", v |-> <<n>>]

(* !x is false *)
Truthy(x) ==
    \/ x.t = "string" /\ x.v # <<>>
    \/ x.t = "number" /\ x.v # <<0>>
    \/ x.t \in {"array", "nonarray", "key", "bad"}

(* Addresses: a base58 string or the PublicKey made from it. *)
Key(k, b) == [t |-> "key", k |-> k, b |-> b]
BadAddress == [t |-> "bad", k |-> "", b |-> <<>>]
NoAddress == [t |-> "absent", k |-> "", b |-> <<>>]

(* new PublicKey(x) throws unless x decodes to 32 bytes. *)
PublicKeyThrows(x) == x.t # "key"

NoAmount == [t |-> "absent", n |-> 0]
Amount(n) == [t |-> "number", n |-> n]

Seed(mint, amount) == [mint |-> mint, amount_u64 |-> amount]

NoSeeds == [t |-> "absent", a |-> <<>>]
NotAnArray == [t |-> "nonarray", a |-> <<>>]
SeedArray(a) == [t |-> "array", a |-> a]

(* Fixed external addresses *)
PROGRAM_ID == Key("PROGRAM_ID", <<>>)
FEE_ACCOUNT_PUBKEY == Key("FEE_ACCOUNT_PUBKEY", <<>>)
CONFIG_ACCOUNT == Key("CONFIG_ACCOUNT", <<>>)
METADATA_PROGRAM_ID == Key("METADATA_PROGRAM_ID", <<>>)
SystemProgramId == Key("SystemProgram", <<>>)
TOKEN_PROGRAM_ID == Key("TOKEN_PROGRAM_ID", <<>>)
SYSVAR_RENT_PUBKEY == Key("SYSVAR_RENT_PUBKEY", <<>>)

(* "https://ipfs.io/ipfs/" *)
IPFS_GATEWAY ==
    <<104, 116, 116, 112, 115, 58, 47, 47, 105, 112, 102, 115, 46, 105, 111,
      47, 105, 112, 102, 115, 47>>

(* createHash("sha256") and PublicKey.findProgramAddressSync are taken to be
   collision free: each is the tagged preimage.  The bump seed is a function
   of the digest and is not carried. *)
Sha256(bytes) == [alg |-> "sha256", preimage |-> bytes]
FindProgramAddress(tag, digest) == Key(tag, digest.preimage)
(* findProgramAddress(["metadata", METADATA_PROGRAM_ID, pda], METADATA_PROGRAM_ID) *)
FindMetadataAddress(pdaPubkey) == Key("metadata", pdaPubkey.b)

----------------------------------------------------------------------------
(* Seed ordering *)

(* Buffer.compare: unsigned byte-wise, -1 / 0 / 1. *)
RECURSIVE BufferCompare(_, _)
BufferCompare(a, b) ==
    IF a = <<>> /\ b = <<>> THEN 0
    ELSE IF a = <<>> THEN -1
    ELSE IF b = <<>> THEN 1
    ELSE IF Head(a) < Head(b) THEN -1
    ELSE IF Head(a) > Head(b) THEN 1
    ELSE BufferCompare(Tail(a), Tail(b))

(* Mutant: the mint bytes compared as signed 8-bit values. *)
RECURSIVE SignedCompare(_, _)
SignedCompare(a, b) ==
    LET signed(x) == IF x >= 128 THEN x - 256 ELSE x
    IN  IF a = <<>> /\ b = <<>> THEN 0
        ELSE IF a = <<>> THEN -1
        ELSE IF b = <<>> THEN 1
        ELSE IF signed(Head(a)) < signed(Head(b)) THEN -1
        ELSE IF signed(Head(a)) > signed(Head(b)) THEN 1
        ELSE SignedCompare(Tail(a), Tail(b))

compareSeedsSigned(a, b) == SignedCompare(a.mint.b, b.mint.b)

(* The comparator handed to Array.prototype.sort. *)
compareSeeds(a, b) == BufferCompare(a.mint.b, b.mint.b)

(* Array.prototype.sort is stable: x goes after every element that does not
   compare greater than it. *)
RECURSIVE InsertSorted(_, _)
InsertSorted(x, sorted) ==
    IF sorted = <<>> THEN <<x>>
    ELSE IF compareSeeds(Head(sorted), x) > 0 THEN <<x>> \o sorted
    ELSE <<Head(sorted)>> \o InsertSorted(x, Tail(sorted))

RECURSIVE SortFrom(_, _)
SortFrom(rest, sorted) ==
    IF rest = <<>> THEN sorted
    ELSE SortFrom(Tail(rest), InsertSorted(Head(rest), sorted))

sortByMint(a) == SortFrom(a, <<>>)

(* The comparator builds a PublicKey from both mints, so a sort of two or
   more seeds throws on a mint that is no address; sort collects the elements,
   orders the copy and writes back last, so the array is untouched then. *)
SortThrows(a) == Len(a) >= 2 /\ \E i \in 1..Len(a) : PublicKeyThrows(a[i].mint)

(* seeds.every((s) => s.mint && s.amount_u64 !== undefined) *)
EverySeedComplete(a) ==
    \A i \in 1..Len(a) : Truthy(a[i].mint) /\ a[i].amount_u64.t # "absent"

----------------------------------------------------------------------------
(* Address derivation *)

Ok(value) == [err |-> "", value |-> value]
Throw(msg, value) == [err |-> msg, value |-> value]

RECURSIVE seedChunks(_)
seedChunks(sortedSeeds) ==
    IF sortedSeeds = <<>> THEN <<>>
    ELSE LET seed == Head(sortedSeeds)
             mintBytes == seed.mint.b
             qtyBytes == encodeU64(BigIntOf(seed.amount_u64.n))
         IN  mintBytes \o qtyBytes \o seedChunks(Tail(sortedSeeds))

NoDerived == [pda |-> NoAddress, sha256Hash |-> [alg |-> "none", preimage |-> <<>>]]

(* derivePDAFromCookedData: err is the message thrown, "" when it returns. *)
derivePDAFromCookedData(cd) ==
    IF cd.seeds.t # "array"
    THEN Throw("cookedData.seeds must be an array", NoDerived)
    ELSE IF cd.salt.t # "string"
    THEN Throw("cookedData.salt must be a string", NoDerived)
    ELSE IF \E i \in 1..Len(cd.seeds.a) : PublicKeyThrows(cd.seeds.a[i].mint)
    THEN Throw("Invalid public key input", NoDerived)
    ELSE LET sortedSeeds == sortByMint(cd.seeds.a)
             saltBytes == saltBuffer(cd.salt.v)
             concatenated == seedChunks(sortedSeeds) \o saltBytes
             sha256Hash == Sha256(concatenated)
             pda == FindProgramAddress("pda", sha256Hash)
         IN  Ok([pda |-> pda, sha256Hash |-> sha256Hash])

(* Mutant: the salt bytes appended as they are, neither cut nor padded. *)
findCookPDAUnpadded(data, salt) ==
    LET sha256Hash == Sha256(data \o Utf8(salt))
    IN  [pda |-> FindProgramAddress("pda", sha256Hash), sha256Hash |-> sha256Hash]

(* findCookPDA(concatenatedData, salt), salt a string. *)
findCookPDA(data, salt) ==
    LET encodedSalt == Utf8(salt)
        n == Min(Len(encodedSalt), SaltWidth)
        saltBytes == SubSeq(encodedSalt, 1, n) \o Zeros(SaltWidth - n)
        concatenated == data \o saltBytes
        sha256Hash == Sha256(concatenated)
        pda == FindProgramAddress("pda", sha256Hash)
    IN  [pda |-> pda, sha256Hash |-> sha256Hash]

----------------------------------------------------------------------------
(* Validation *)

MissingField(field) ==
    IF field = "seeds" THEN "Invalid cookedData: Missing required field 'seeds'."
    ELSE IF field = "metadataCid" THEN "Invalid cookedData: Missing required field 'metadataCid'."
    ELSE IF field = "name" THEN "Invalid cookedData: Missing required field 'name'."
    ELSE IF field = "symbol" THEN "Invalid cookedData: Missing required field 'symbol'."
    ELSE IF field = "salt" THEN "Invalid cookedData: Missing required field 'salt'."
    ELSE IF field = "pda" THEN "Invalid cookedData: Missing required field 'pda'."
    ELSE "Invalid cookedData: Missing required field 'seedSalt'."

SeedsNotArray == "Invalid cookedData: 'seeds' must be an array."
SeedIncomplete == "Invalid cookedData: Each seed must have 'mint' and 'amount_u64'."

(* The first required field that is falsy, "" when there is none. *)
RECURSIVE FirstFalsy(_, _)
FirstFalsy(cd, fields) ==
    IF fields = <<>> THEN ""
    ELSE IF ~Truthy(cd[Head(fields)]) THEN Head(fields)
    ELSE FirstFalsy(cd, Tail(fields))

(* validateCookedData: err is the message thrown ("" when it returns) and
   value is the caller's object as the call leaves it, which is also the
   object returned. *)
validateCookedData(cd) ==
    LET missing == FirstFalsy(cd, <<"seeds", "metadataCid", "name", "symbol">>)
    IN  IF missing # "" THEN Throw(MissingField(missing), cd)
        ELSE IF cd.salt.t = "absent" THEN Throw(MissingField("salt"), cd)
        ELSE IF cd.seeds.t # "array" THEN Throw(SeedsNotArray, cd)
        ELSE IF ~EverySeedComplete(cd.seeds.a) THEN Throw(SeedIncomplete, cd)
        ELSE IF SortThrows(cd.seeds.a) THEN Throw("Invalid public key input", cd)
        ELSE LET sorted == [cd EXCEPT !.seeds.a = sortByMint(cd.seeds.a)]
                 derived == derivePDAFromCookedData(sorted)
             IN  IF derived.err # "" THEN Throw(derived.err, sorted)
                 ELSE Ok([sorted EXCEPT !.pda = derived.value.pda])

(* sortSeeds: value is the object returned; the caller's object is not
   written. *)
sortSeeds(cd) ==
    IF cd.seeds.t # "array" THEN Throw(SeedsNotArray, cd)
    ELSE IF ~EverySeedComplete(cd.seeds.a) THEN Throw(SeedIncomplete, cd)
    ELSE IF SortThrows(cd.seeds.a) THEN Throw("Invalid public key input", cd)
    ELSE Ok([cd EXCEPT !.seeds.a = sortByMint(cd.seeds.a)])

validateCookedDataForCooking(cd) ==
    LET missing == FirstFalsy(cd, <<"pda", "seeds">>)
    IN  IF missing # "" THEN Throw(MissingField(missing), cd)
        ELSE IF cd.seedSalt.t = "absent" THEN Throw(MissingField("seedSalt"), cd)
        ELSE IF cd.seeds.t # "array" THEN Throw(SeedsNotArray, cd)
        ELSE IF ~EverySeedComplete(cd.seeds.a) THEN Throw(SeedIncomplete, cd)
        ELSE Ok(cd)

----------------------------------------------------------------------------
(* Unsigned integers of BigLen little-endian bytes, for values that do not
   fit the checker's machine integers. *)

BigZero == Zeros(BigLen)

RECURSIVE MulFrom(_, _, _, _)
MulFrom(a, k, i, carry) ==
    IF i > Len(a) THEN <<>>
    ELSE LET t == a[i] * k + carry
         IN  <<t % 256>> \o MulFrom(a, k, i + 1, t \div 256)

(* a * k, k at most 1000 *)
BigMul(a, k) == MulFrom(a, k, 1, 0)

RECURSIVE DivFrom(_, _, _, _)
DivFrom(a, d, i, rem) ==
    IF i = 0 THEN [q |-> <<>>, r |-> rem]
    ELSE LET t == rem * 256 + a[i]
             rest == DivFrom(a, d, i - 1, t % d)
         IN  [q |-> Append(rest.q, t \div d), r |-> rest.r]

(* a div d and a mod d, d at most 1000 *)
BigDivMod(a, d) == DivFrom(a, d, Len(a), 0)

RECURSIVE CmpFrom(_, _, _)
CmpFrom(a, b, i) ==
    IF i = 0 THEN 0
    ELSE IF a[i] < b[i] THEN -1
    ELSE IF a[i] > b[i] THEN 1
    ELSE CmpFrom(a, b, i - 1)

BigCmp(a, b) == CmpFrom(a, b, Len(a))

BigSucc(a) ==
    LET RECURSIVE inc(_)
        inc(i) == IF i > Len(a) THEN <<>>
                  ELSE IF a[i] = 255 THEN <<0>> \o inc(i + 1)
                  ELSE <<a[i] + 1>> \o SubSeq(a, i + 1, Len(a))
    IN  inc(1)

RECURSIVE BigTimesPow(_, _, _)
BigTimesPow(a, base, n) == IF n = 0 THEN a ELSE BigTimesPow(BigMul(a, base), base, n - 1)

BigOne == <<1>> \o Zeros(BigLen - 1)

RECURSIVE IntPow2(_)
IntPow2(n) == IF n = 0 THEN 1 ELSE 2 * IntPow2(n - 1)

(* a * 2^n and a div 2^n: whole bytes move, the rest is one small
   multiplication or division. *)
ShiftLeft(a, n) ==
    LET bytes == Min(n \div 8, Len(a))
    IN  BigMul(Zeros(bytes) \o SubSeq(a, 1, Len(a) - bytes), IntPow2(n % 8))

ShiftRight(a, n) ==
    LET bytes == Min(n \div 8, Len(a))
    IN  BigDivMod(SubSeq(a, bytes + 1, Len(a)) \o Zeros(bytes), IntPow2(n % 8)).q

BigPow2(n) == ShiftLeft(BigOne, n)

RECURSIVE IntBitLen(_)
IntBitLen(n) == IF n = 0 THEN 0 ELSE 1 + IntBitLen(n \div 2)

RECURSIVE TopByte(_, _)
TopByte(a, i) == IF i = 0 \/ a[i] # 0 THEN i ELSE TopByte(a, i - 1)

(* The number of significant bits of a *)
BigBitLen(a) ==
    LET top == TopByte(a, Len(a))
    IN  IF top = 0 THEN 0 ELSE 8 * (top - 1) + IntBitLen(a[top])

BigOdd(a) == a[1] % 2 = 1

RECURSIVE IntPow10(_)
IntPow10(n) == IF n = 0 THEN 1 ELSE 10 * IntPow10(n - 1)

(* The decimal digits ds (most significant first) as an integer. *)
RECURSIVE BigFromDigits(_, _)
BigFromDigits(ds, acc) ==
    IF ds = <<>> THEN acc
    ELSE LET t == BigMul(acc, 10)
         IN  BigFromDigits(Tail(ds), IF Head(ds) = 0 THEN t
                                      ELSE MulFrom(t, 1, 1, Head(ds)))

(* a div 10^k and a mod 10^k, the remainder as a machine integer (k <= 8). *)
RECURSIVE DivPow10(_, _)
DivPow10(a, k) ==
    IF k = 0 THEN [q |-> a, r |-> 0]
    ELSE LET low == BigDivMod(a, 10)
             high == DivPow10(low.q, k - 1)
         IN  [q |-> high.q, r |-> low.r + 10 * high.r]

----------------------------------------------------------------------------
(* IEEE 754 binary64 values: m * 2^e with m below 2^53, or NaN, or an
   infinity. *)

NaN == [nan |-> TRUE, inf |-> FALSE, neg |-> FALSE, m |-> BigZero, e |-> 0]
Infinity(neg) == [nan |-> FALSE, inf |-> TRUE, neg |-> neg, m |-> BigZero, e |-> 0]
Double(neg, m, e) == [nan |-> FALSE, inf |-> FALSE, neg |-> neg, m |-> m, e |-> e]

Max(a, b) == IF a >= b THEN a ELSE b

(* x * 2^s for the least s >= from that makes it reach t *)
RECURSIVE ShiftUpTo(_, _, _)
ShiftUpTo(x, t, from) ==
    LET y == ShiftLeft(x, from)
    IN  IF BigCmp(y, t) >= 0 THEN [x |-> y, s |-> from] ELSE ShiftUpTo(x, t, from + 1)

(* The binary64 nearest to n / 10^k (ties to even), for 0 <= n / 10^k < 2^53:
   what a correctly rounding decimal-to-double conversion returns. *)
NearestDouble(neg, n, k) ==
    IF n = BigZero THEN Double(neg, BigZero, 0)
    ELSE LET lowest == BigTimesPow(BigPow2(Mantissa - 1), 10, k)
             up == ShiftUpTo(n, lowest, Max(0, BigBitLen(lowest) - BigBitLen(n) - 1))
             d == DivPow10(up.x, k)
             roundUp == \/ 2 * d.r > IntPow10(k)
                        \/ 2 * d.r = IntPow10(k) /\ BigOdd(d.q)
             m == IF roundUp THEN BigSucc(d.q) ELSE d.q
         IN  Double(neg, m, 0 - up.s)

(* Drop the lowest t bits of x, rounding to nearest, ties to even. *)
RoundBits(x, t) ==
    IF t = 0 THEN x
    ELSE LET y == ShiftRight(x, t - 1)
             guard == BigOdd(y)
             sticky == ShiftLeft(y, t - 1) # x
             q == ShiftRight(y, 1)
         IN  IF guard /\ (sticky \/ BigOdd(q)) THEN BigSucc(q) ELSE q

(* floatVal * 10 ** decimals: the exact product rounded to 53 bits. *)
TimesPow10(d, decimals) ==
    IF d.nan \/ d.inf THEN d
    ELSE LET exact == BigTimesPow(d.m, 10, decimals)
             t == Max(0, BigBitLen(exact) - Mantissa)
         IN  Double(d.neg, RoundBits(exact, t), d.e + t)

(* BigInt(Math.floor(d)) of a finite d *)
FloorToBigInt(d) ==
    IF d.e >= 0 THEN [neg |-> d.neg, mag |-> ShiftLeft(d.m, d.e)]
    ELSE LET q == ShiftRight(d.m, 0 - d.e)
             lost == ShiftLeft(q, 0 - d.e) # d.m
         IN  [neg |-> d.neg, mag |-> IF d.neg /\ lost THEN BigSucc(q) ELSE q]

----------------------------------------------------------------------------
(* parseFloat *)

IsDigit(c) == c >= 48 /\ c <= 57
INFINITY == <<73, 110, 102, 105, 110, 105, 116, 121>>

RECURSIVE SkipSpaces(_)
SkipSpaces(str) ==
    IF str # <<>> /\ Head(str) = 32 THEN SkipSpaces(Tail(str)) ELSE str

(* The longest prefix of str made of decimal digits, as digit values *)
RECURSIVE LeadingDigits(_)
LeadingDigits(str) ==
    IF str # <<>> /\ IsDigit(Head(str))
    THEN <<Head(str) - 48>> \o LeadingDigits(Tail(str))
    ELSE <<>>

(* parseFloat(str): the longest prefix that is a decimal literal (sign,
   digits, point, digits; "Infinity"), NaN when there is none.  Exponent
   parts are not modelled: no input of the model holds an "e". *)
parseFloat(x) ==
    IF x.t # "string" THEN NaN
    ELSE LET trimmed == SkipSpaces(x.v)
             signed == trimmed # <<>> /\ Head(trimmed) \in {43, 45}
             neg == signed /\ Head(trimmed) = 45
             body == IF signed THEN Tail(trimmed) ELSE trimmed
             int == LeadingDigits(body)
             after == SubSeq(body, Len(int) + 1, Len(body))
             frac == IF after # <<>> /\ Head(after) = 46
                     THEN LeadingDigits(Tail(after)) ELSE <<>>
         IN  IF Len(body) >= Len(INFINITY) /\ SubSeq(body, 1, Len(INFINITY)) = INFINITY
             THEN Infinity(neg)
             ELSE IF int = <<>> /\ frac = <<>> THEN NaN
             ELSE NearestDouble(neg, BigFromDigits(int \o frac, BigZero), Len(frac))

(* toBaseUnits(amountStr, decimals): err is the message thrown. *)
toBaseUnits(amountStr, decimals) ==
    LET floatVal == parseFloat(amountStr)
    IN  IF floatVal.nan THEN Throw("Invalid number in qty_requested", BigIntOf(0))
        ELSE LET scaled == TimesPow10(floatVal, decimals)
             IN  IF scaled.inf
                 THEN Throw("The number Infinity cannot be converted to a BigInt", BigIntOf(0))
                 ELSE Ok(FloorToBigInt(scaled))

----------------------------------------------------------------------------
(* Instruction assembly *)

AccountMeta(pubkey, isSigner, isWritable) ==
    [pubkey |-> pubkey, isSigner |-> isSigner, isWritable |-> isWritable]

(* Mutant: the seed mints listed as writable accounts. *)
RECURSIVE seedAccountsWritable(_)
seedAccountsWritable(seeds) ==
    IF seeds = <<>> THEN <<>>
    ELSE (IF Truthy(Head(seeds).mint)
          THEN <<AccountMeta(Head(seeds).mint, FALSE, TRUE)>> ELSE <<>>)
         \o seedAccountsWritable(Tail(seeds))

RECURSIVE seedAccounts(_)
seedAccounts(seeds) ==
    IF seeds = <<>> THEN <<>>
    ELSE (IF Truthy(Head(seeds).mint)
          THEN <<AccountMeta(Head(seeds).mint, FALSE, FALSE)>> ELSE <<>>)
         \o seedAccounts(Tail(seeds))

RECURSIVE amountsData(_)
amountsData(seeds) ==
    IF seeds = <<>> THEN <<>>
    ELSE encodeU64(BigIntOf(Head(seeds).amount_u64.n)) \o amountsData(Tail(seeds))

RECURSIVE tokenAccountMetas(_)
tokenAccountMetas(accounts) ==
    IF accounts = <<>> THEN <<>>
    ELSE <<AccountMeta(Head(accounts), FALSE, TRUE)>> \o tokenAccountMetas(Tail(accounts))

NoInstruction == [keys |-> <<>>, data |-> <<>>]

(* The accounts of createRecipe, lines 211-231 *)
createRecipeAccounts(feePayerPubkey, pdaPubkey, seeds) ==
    LET metadataPda == FindMetadataAddress(pdaPubkey)
    IN  << AccountMeta(feePayerPubkey, TRUE, TRUE),
           AccountMeta(FEE_ACCOUNT_PUBKEY, FALSE, TRUE),
           AccountMeta(CONFIG_ACCOUNT, FALSE, FALSE),
           AccountMeta(pdaPubkey, FALSE, TRUE),
           AccountMeta(metadataPda, FALSE, TRUE),
           AccountMeta(SystemProgramId, FALSE, FALSE),
           AccountMeta(TOKEN_PROGRAM_ID, FALSE, FALSE),
           AccountMeta(SYSVAR_RENT_PUBKEY, FALSE, FALSE),
           AccountMeta(METADATA_PROGRAM_ID, FALSE, FALSE) >>
        \o seedAccounts(seeds)

(* The payload of createRecipe, lines 198-257 *)
createRecipeData(seeds, salt, name, symbol, uri) ==
    LET instructionId == <<OpCreate>>
        amountsLen == encodeU32(Len(seeds))
    IN  instructionId \o amountsLen \o amountsData(seeds) \o saltBuffer(salt)
        \o encodeString(name) \o encodeString(symbol) \o encodeString(uri)

(* createRecipe(feePayerPubkey, cookedData): err is the message thrown,
   value.cd the caller's object as the call leaves it, value.ix the
   instruction returned. *)
createRecipe(feePayerPubkey, cd) ==
    LET validated == validateCookedData(cd)
        v == validated.value
    IN  IF validated.err # ""
        THEN Throw(validated.err, [cd |-> v, ix |-> NoInstruction])
        ELSE LET uri == IPFS_GATEWAY \o v.metadataCid.v
             IN  Ok([cd |-> v,
                     ix |-> [keys |-> createRecipeAccounts(feePayerPubkey, v.pda, v.seeds.a),
                             data |-> createRecipeData(v.seeds.a, v.salt.v, v.name.v,
                                                       v.symbol.v, uri)]])

(* The accounts of useRecipe, lines 389-407 and 430-436 *)
useRecipeAccounts(feePayerPubkey, pdaPubkey, seeds, accounts) ==
    << AccountMeta(feePayerPubkey, TRUE, TRUE),
       AccountMeta(FEE_ACCOUNT_PUBKEY, FALSE, TRUE),
       AccountMeta(CONFIG_ACCOUNT, FALSE, FALSE),
       AccountMeta(pdaPubkey, FALSE, TRUE),
       AccountMeta(SystemProgramId, FALSE, FALSE),
       AccountMeta(TOKEN_PROGRAM_ID, FALSE, FALSE),
       AccountMeta(SYSVAR_RENT_PUBKEY, FALSE, FALSE) >>
    \o seedAccounts(seeds) \o tokenAccountMetas(accounts)

(* The payload of useRecipe, lines 384-428 *)
useRecipeData(opt, seeds, seedSalt, baseQty) ==
    LET amountsLen == encodeU32(Len(seeds))
        qtyRequestedBuf == encodeU64(baseQty)
    IN  <<opt>> \o amountsLen \o amountsData(seeds) \o saltBuffer(seedSalt)
        \o qtyRequestedBuf

(* Mutant: the opcodes of the comment on line 385 (0x01 cook, 0x02 uncook). *)
optionAcceptedStale(opt) == opt \in {OpCreate, OpCook}

optionAccepted(opt) == opt \in {OpCook, OpUncook}

(* tokenAccounts.length !== 2 * seeds.length + 2 *)
accountCountMismatch(accounts, seeds) == Len(accounts) # 2 * Len(seeds) + 2

(* What useRecipe does when the account count does not match: `how` is
   "null" (returns null), "throw" or "return". *)
onAccountCountMismatch == [how |-> "null", err |-> "", value |-> NoInstruction]

Returned(ix) == [how |-> "return", err |-> "", value |-> ix]
Thrown(msg) == [how |-> "throw", err |-> msg, value |-> NoInstruction]

useRecipe(feePayerPubkey, cd, accounts, opt) ==
    IF ~optionAccepted(opt)
    THEN Thrown("Invalid option. Must be 0x02 (cook) or 0x03 (uncook).")
    ELSE LET validated == validateCookedDataForCooking(cd)
             seeds == cd.seeds.a
         IN  IF validated.err # "" THEN Thrown(validated.err)
             ELSE IF accountCountMismatch(accounts, seeds) THEN onAccountCountMismatch
             ELSE IF PublicKeyThrows(cd.pda) THEN Thrown("Invalid public key input")
             ELSE IF \E i \in 1..Len(seeds) : PublicKeyThrows(seeds[i].mint)
             THEN Thrown("Invalid public key input")
             ELSE IF cd.seedSalt.t # "string"
             THEN Thrown("The first argument must be of type string")
             ELSE LET baseQty == toBaseUnits(cd.qty_requested, Decimals)
                  IN  IF baseQty.err # "" THEN Thrown(baseQty.err)
                      ELSE IF encodeU64Throws(baseQty.value)
                      THEN Thrown("The value of \"value\" is out of range")
                      ELSE IF \E i \in 1..Len(accounts) : PublicKeyThrows(accounts[i])
                      THEN Thrown("Invalid public key input")
                      ELSE Returned([keys |-> useRecipeAccounts(feePayerPubkey, cd.pda,
                                                                seeds, accounts),
                                     data |-> useRecipeData(opt, seeds, cd.seedSalt.v,
                                                            baseQty.value)])

----------------------------------------------------------------------------
(* Inputs *)

Mint(hi, lo) == Key("mint", <<hi>> \o Zeros(PubkeyLen - 2) \o <<lo>>)
MintA == Mint(1, 0)
MintB == Mint(1, 255)
MintC == Mint(200, 0)
Mints == {MintA, MintB, MintC}
Amounts == {1, 1000000}

ValidSeeds == {Seed(m, Amount(n)) : m \in Mints, n \in Amounts}
MalformedSeeds ==
    {Seed(NoAddress, Amount(1)), Seed(MintA, NoAmount), Seed(BadAddress, Amount(1))}

feePayer == Key("payer", <<>>)
RecipePDA == Key("pda", <<7>>)

(* "salt1", "Test Recipe" shortened to "TR", "TST", "cid" *)
Salt1 == <<115, 97, 108, 116, 49>>
NameTR == <<84, 82>>
SymbolTST == <<84, 83, 84>>
Cid == <<99, 105, 100>>
(* "2.5" *)
Qty25 == <<50, 46, 53>>

CookedData(seeds, salt, cid, name, symbol, pda, qty) ==
    [seeds |-> seeds, salt |-> salt, metadataCid |-> cid, name |-> name,
     symbol |-> symbol, pda |-> pda, seedSalt |-> salt, qty_requested |-> qty]

TokenAccounts(n) == [i \in 1..n |-> Key("token", <<i>>)]

(* Salts: n times "a", and the same with the last character replaced by NUL,
   by "b", by a two-byte and by a three-byte character, for short lengths
   and for lengths around the width of the salt field. *)
SaltLengths == (0..2) \cup ((SaltWidth - 2)..MaxSaltLen)
SaltStrings ==
    {Repeat(97, n) : n \in SaltLengths}
    \cup {Repeat(97, n - 1) \o <<c>> : n \in SaltLengths \ {0}, c \in {0, 98, 233, 8364}}

(* Quantity strings: decimal numbers with up to seven fraction digits, and
   strings that are no decimal number. *)
QtyIntParts == {<<48>>, <<50>>, <<52>>, <<56>>, <<49, 54>>}
QtyFracParts ==
    {<<>>, <<46>>, <<46, 53>>, <<46, 49>>, <<46, 50>>, <<46, 48, 49>>,
     <<46, 48, 48, 48, 48, 48, 49>>, <<46, 48, 48, 48, 48, 48, 49, 57>>}
QtyOther ==
    { <<>>, <<97, 98, 99>>, <<50, 46, 53, 97, 98, 99>>, INFINITY, <<45, 49>>,
      <<45, 48>>, <<46, 53>>, <<46>>, <<32, 50, 46, 53>>, <<43, 50>>,
      <<45, 48, 46, 48, 48, 48, 48, 48, 48, 49>> }
QtyStrings == {i \o f : i \in QtyIntParts, f \in QtyFracParts} \cup QtyOther

TwoSeeds == <<Seed(MintC, Amount(1)), Seed(MintA, Amount(1000000))>>

SeedsInputs ==
    { CookedData(SeedArray(a), Str(Salt1), Str(Cid), Str(NameTR), Str(SymbolTST),
                 RecipePDA, Str(Qty25))
        : a \in SeqsUpTo(ValidSeeds \cup MalformedSeeds, MaxSeeds) }

FieldInputs ==
    { CookedData(seeds, salt, cid, name, symbol, pda, Str(Qty25))
        : seeds \in {NoSeeds, NotAnArray, SeedArray(<<>>),
                     SeedArray(<<Seed(MintB, Amount(1))>>), SeedArray(TwoSeeds)},
          salt \in {Absent, Str(<<>>), Str(Salt1), Num(7)},
          cid \in {Absent, Str(<<>>), Str(Cid)},
          name \in {Absent, Str(<<>>), Str(NameTR)},
          symbol \in {Absent, Str(<<>>), Str(SymbolTST)},
          pda \in {NoAddress, RecipePDA, BadAddress} }

SaltInputs ==
    { CookedData(SeedArray(TwoSeeds), Str(s), Str(Cid), Str(NameTR), Str(SymbolTST),
                 RecipePDA, Str(Qty25))
        : s \in SaltStrings }

QtyInputs ==
    { CookedData(SeedArray(TwoSeeds), Str(Salt1), Str(Cid), Str(NameTR), Str(SymbolTST),
                 RecipePDA, q)
        : q \in {Str(v) : v \in QtyStrings} \cup {Absent} }

CountInputs ==
    { CookedData(SeedArray(a), Str(Salt1), Str(Cid), Str(NameTR), Str(SymbolTST),
                 RecipePDA, Str(Qty25))
        : a \in {SubSeq(<<Seed(MintC, Amount(1)), Seed(MintA, Amount(1000000)),
                          Seed(MintB, Amount(1)), Seed(MintA, Amount(1))>>, 1, n)
                    : n \in 0..Min(MaxSeeds, 4)} }

SeedCount(cd) == IF cd.seeds.t = "array" THEN Len(cd.seeds.a) ELSE 0

----------------------------------------------------------------------------
(* The state machine *)

EmptyObject == CookedData(NoSeeds, Absent, Absent, Absent, Absent, NoAddress, Absent)

(* how: "none" | "return" | "throw" | "null"; err: the message thrown;
   ix: the instruction returned; obj: the object returned; derived: the
   address and digest returned. *)
NoResult ==
    [how |-> "none", err |-> "", ix |-> NoInstruction, obj |-> EmptyObject,
     derived |-> NoDerived]

Outcome(err) == IF err = "" THEN "return" ELSE "throw"

Init ==
    /\ pc = "ready"
    /\ op = "none"
    /\ result = NoResult
    /\ \/ /\ cookedData \in SeedsInputs \cup QtyInputs
          /\ tokenAccounts = TokenAccounts(2 * SeedCount(cookedData) + 2)
          /\ option = OpCook
          /\ concatenatedData = Repeat(1, 32)
       \/ /\ cookedData \in FieldInputs
          /\ tokenAccounts = TokenAccounts(2 * SeedCount(cookedData) + 2)
          /\ option \in {OpCook, 4}
          /\ concatenatedData = Repeat(1, 32)
       \/ /\ cookedData \in SaltInputs
          /\ tokenAccounts = TokenAccounts(2 * SeedCount(cookedData) + 2)
          /\ option = OpUncook
          /\ concatenatedData \in {Repeat(1, 32), <<>>}
       \/ /\ cookedData \in CountInputs
          /\ tokenAccounts \in {TokenAccounts(n) : n \in 0..(2 * MaxSeeds + 3)}
          /\ option \in 1..4
          /\ concatenatedData = Repeat(1, 32)
    /\ orig = cookedData

Finish(name, res) ==
    /\ pc' = "done"
    /\ op' = name
    /\ result' = res
    /\ UNCHANGED <<orig, tokenAccounts, option, concatenatedData>>

CreateRecipe ==
    /\ pc = "ready"
    /\ LET r == createRecipe(feePayer, cookedData)
       IN  /\ cookedData' = r.value.cd
           /\ Finish("createRecipe",
                     [NoResult EXCEPT !.how = Outcome(r.err), !.err = r.err,
                                      !.ix = r.value.ix])

ValidateCookedData ==
    /\ pc = "ready"
    /\ LET r == validateCookedData(cookedData)
       IN  /\ cookedData' = r.value
           /\ Finish("validateCookedData",
                     [NoResult EXCEPT !.how = Outcome(r.err), !.err = r.err,
                                      !.obj = IF r.err = "" THEN r.value ELSE EmptyObject])

DerivePDAFromCookedData ==
    /\ pc = "ready"
    /\ LET r == derivePDAFromCookedData(cookedData)
       IN  /\ UNCHANGED cookedData
           /\ Finish("derivePDAFromCookedData",
                     [NoResult EXCEPT !.how = Outcome(r.err), !.err = r.err,
                                      !.derived = r.value])

(* findCookPDA is called with the salt of the caller's object. *)
FindCookPDA ==
    /\ pc = "ready"
    /\ cookedData.salt.t = "string"
    /\ UNCHANGED cookedData
    /\ Finish("findCookPDA",
              [NoResult EXCEPT !.how = "return",
                               !.derived = findCookPDA(concatenatedData, cookedData.salt.v)])

UseRecipe ==
    /\ pc = "ready"
    /\ LET r == useRecipe(feePayer, cookedData, tokenAccounts, option)
       IN  /\ UNCHANGED cookedData
           /\ Finish("useRecipe",
                     [NoResult EXCEPT !.how = r.how, !.err = r.err, !.ix = r.value])

SortSeeds ==
    /\ pc = "ready"
    /\ LET r == sortSeeds(cookedData)
       IN  /\ UNCHANGED cookedData
           /\ Finish("sortSeeds",
                     [NoResult EXCEPT !.how = Outcome(r.err), !.err = r.err,
                                      !.obj = IF r.err = "" THEN r.value ELSE EmptyObject])

Next ==
    \/ CreateRecipe
    \/ ValidateCookedData
    \/ DerivePDAFromCookedData
    \/ FindCookPDA
    \/ SortSeeds
    \/ UseRecipe

Spec == Init /\ [][Next]_vars

----------------------------------------------------------------------------
(* Vocabulary of the properties *)

Done(name) == pc = "done" /\ op = name

(* Little-endian bytes as a number *)
RECURSIVE DecodeLE(_)
DecodeLE(bytes) == IF bytes = <<>> THEN 0 ELSE Head(bytes) + 256 * DecodeLE(Tail(bytes))

(* a precedes b in unsigned byte-wise order (equal lengths) *)
BytesBefore(a, b) ==
    \E i \in 1..Len(a) : a[i] < b[i] /\ \A j \in 1..(i - 1) : a[j] = b[j]

(* mints of ms never go down *)
AscendingMints(ms) ==
    \A i \in 1..Len(ms), j \in 1..Len(ms) : i < j => ~BytesBefore(ms[j].b, ms[i].b)

Bijections(n) == {p \in [1..n -> 1..n] : \A i, j \in 1..n : p[i] = p[j] => i = j}

(* out is a rearrangement of in *)
IsPermutationOf(out, in) ==
    /\ Len(out) = Len(in)
    /\ \E p \in Bijections(Len(in)) : \A i \in 1..Len(in) : out[i] = in[p[i]]

Rearrangements(a) == {[i \in 1..Len(a) |-> a[p[i]]] : p \in Bijections(Len(a))}

(* Every field the cook path reads is well formed, the account count aside *)
CookRequestValid(cd) ==
    /\ cd.pda.t = "key"
    /\ cd.seeds.t = "array"
    /\ \A i \in 1..Len(cd.seeds.a) :
          cd.seeds.a[i].mint.t = "key" /\ cd.seeds.a[i].amount_u64.t = "number"
    /\ cd.seedSalt.t = "string"
    /\ cd.qty_requested = Str(Qty25)

(* Every field the create path reads is well formed, seeds aside *)
DescriptorValidButSeeds(cd) ==
    /\ cd.salt.t = "string"
    /\ Truthy(cd.metadataCid) /\ Truthy(cd.name) /\ Truthy(cd.symbol)

(* The seed quantities the payload carries after the count, as numbers *)
PayloadAmounts(data, n) == [i \in 1..n |-> DecodeLE(SubSeq(data, 6 + 8 * (i - 1), 5 + 8 * i))]

(* The mints of the n seed accounts that follow the first `fixed` accounts *)
KeyMints(keys, fixed, n) == [i \in 1..n |-> keys[fixed + i].pubkey]

----------------------------------------------------------------------------
(* C1: useRecipe fails, by raising an error, whenever the number of token
   accounts differs from 2 * seeds.length + 2, for both accepted options and
   an otherwise valid cookedData; it never returns null or any other value
   then.  The code returns null (line 381). *)
C1_MismatchRaises ==
    ( /\ Done("useRecipe")
      /\ option \in {OpCook, OpUncook}
      /\ CookRequestValid(orig)
      /\ Len(tokenAccounts) # 2 * Len(orig.seeds.a) + 2 )
    => result.how = "throw"

(* C2: whatever order the caller lists the seeds in, the instruction
   useRecipe returns lists the seed mints (accounts 8 .. 7+N, counting from
   one) in ascending byte-wise order of the raw mint address, and the
   quantities of the payload follow the same order.  The code keeps the
   caller's order. *)
C2_UseRecipeCanonicalOrder ==
    ( Done("useRecipe") /\ result.how = "return" )
    => LET n == Len(orig.seeds.a)
           mints == KeyMints(result.ix.keys, 7, n)
           amounts == PayloadAmounts(result.ix.data, n)
           listed == [i \in 1..n |-> Seed(mints[i], Amount(amounts[i]))]
       IN  /\ AscendingMints(mints)
           /\ IsPermutationOf(listed, orig.seeds.a)

(* C3: a successful createRecipe / validateCookedData / sortSeeds leaves the
   caller's object as it was: same fields, same seeds in the same order.
   validateCookedData sorts the caller's array in place and sets pda on the
   caller's object. *)
C3_CallerDataUntouched ==
    ( /\ pc = "done"
      /\ op \in {"createRecipe", "validateCookedData", "sortSeeds"}
      /\ result.how = "return" )
    => cookedData = orig

(* C4: an empty seeds array is rejected by createRecipe, validateCookedData,
   sortSeeds and useRecipe with an error that names seeds, when nothing else
   is wrong with the call.  The code accepts it: an empty array is truthy and
   every() holds of it. *)
C4_EmptySeedsRejected ==
    ( /\ pc = "done"
      /\ orig.seeds = SeedArray(<<>>)
      /\ \/ op \in {"createRecipe", "validateCookedData"} /\ DescriptorValidButSeeds(orig)
         \/ op = "sortSeeds"
         \/ /\ op = "useRecipe" /\ option \in {OpCook, OpUncook}
            /\ CookRequestValid(orig) /\ Len(tokenAccounts) = 2 )
    => /\ result.how = "throw"
       /\ result.err \in {MissingField("seeds"), SeedsNotArray}

(* The error the descriptor must be rejected with, "" when it is well
   formed: seeds, metadataCid, name and symbol missing or empty, in that
   order, then a missing salt key, a seeds that is no array, a seed without
   mint or amount_u64. *)
C5_ExpectedError(cd) ==
    IF cd.seeds.t = "absent" \/ cd.seeds = SeedArray(<<>>) THEN MissingField("seeds")
    ELSE IF cd.metadataCid \in {Absent, Str(<<>>)} THEN MissingField("metadataCid")
    ELSE IF cd.name \in {Absent, Str(<<>>)} THEN MissingField("name")
    ELSE IF cd.symbol \in {Absent, Str(<<>>)} THEN MissingField("symbol")
    ELSE IF cd.salt = Absent THEN MissingField("salt")
    ELSE IF cd.seeds.t # "array" THEN SeedsNotArray
    ELSE IF \E i \in 1..Len(cd.seeds.a) :
                cd.seeds.a[i].mint.t = "absent" \/ cd.seeds.a[i].amount_u64.t = "absent"
    THEN SeedIncomplete
    ELSE ""

(* C5: createRecipe rejects a descriptor with a missing or empty seeds,
   metadataCid, name or symbol (reported in that order), a missing salt key,
   a seeds that is no array or a seed without mint or amount_u64, by an
   error naming the field, and returns no instruction; an empty-string salt
   is accepted.  An empty seeds array is not rejected (C4). *)
C5_DescriptorRejected ==
    Done("createRecipe")
    => /\ C5_ExpectedError(orig) # ""
          => /\ result.how = "throw"
             /\ result.err = C5_ExpectedError(orig)
             /\ result.ix = NoInstruction
       /\ ( /\ C5_ExpectedError(orig) = ""
            /\ orig.salt = Str(<<>>)
            /\ \A i \in 1..Len(orig.seeds.a) : orig.seeds.a[i].mint.t = "key" )
          => result.how = "return"

(* C5 for every descriptor whose seeds is not the empty array: holds. *)
C5_RejectedButEmptyArray ==
    orig.seeds # SeedArray(<<>>) => C5_DescriptorRejected

----------------------------------------------------------------------------
(* Byte i of a buffer read past its end as zero *)
ByteAt(u, i) == IF i <= Len(u) THEN u[i] ELSE 0

(* Two salts whose UTF-8 bytes, read as 32-byte zero-padded fields, differ *)
Distinguishable(s1, s2) ==
    \E i \in 1..SaltWidth : ByteAt(Utf8(s1), i) # ByteAt(Utf8(s2), i)

WithSalt(cd, s) == [cd EXCEPT !.salt = Str(s)]

(* C6 as stated: for fixed input data, any two different salt strings give
   different digests and different PDAs, from findCookPDA and from
   derivePDAFromCookedData.  Salts that differ only after their first 32
   UTF-8 bytes, or only by trailing NUL characters, give the same ones. *)
C6_DifferentSaltsDiffer ==
    /\ ( Done("findCookPDA") /\ orig.salt.v \in SaltStrings )
       => \A s2 \in SaltStrings \ {orig.salt.v} :
             LET other == findCookPDA(concatenatedData, s2)
             IN  /\ other.sha256Hash # result.derived.sha256Hash
                 /\ other.pda # result.derived.pda
    /\ ( Done("derivePDAFromCookedData") /\ result.how = "return"
         /\ orig.salt.v \in SaltStrings )
       => \A s2 \in SaltStrings \ {orig.salt.v} :
             LET other == derivePDAFromCookedData(WithSalt(orig, s2)).value
             IN  /\ other.sha256Hash # result.derived.sha256Hash
                 /\ other.pda # result.derived.pda

(* C6, amended: for fixed input data, two salts give different digests and
   PDAs exactly when their UTF-8 encodings differ somewhere in the first 32
   bytes, a missing byte counting as zero. *)
C6_DistinguishableSaltsDiffer ==
    /\ ( Done("findCookPDA") /\ orig.salt.v \in SaltStrings )
       => \A s2 \in SaltStrings :
             LET other == findCookPDA(concatenatedData, s2)
             IN  /\ Distinguishable(orig.salt.v, s2)
                    <=> other.sha256Hash # result.derived.sha256Hash
                 /\ Distinguishable(orig.salt.v, s2)
                    <=> other.pda # result.derived.pda
    /\ ( Done("derivePDAFromCookedData") /\ result.how = "return"
         /\ orig.salt.v \in SaltStrings )
       => \A s2 \in SaltStrings :
             LET other == derivePDAFromCookedData(WithSalt(orig, s2)).value
             IN  /\ Distinguishable(orig.salt.v, s2)
                    <=> other.sha256Hash # result.derived.sha256Hash
                 /\ Distinguishable(orig.salt.v, s2)
                    <=> other.pda # result.derived.pda

(* findCookPDA has run on a salt whose 32nd byte falls inside a two-byte
   character. *)
C6_Witness ==
    /\ Done("findCookPDA")
    /\ orig.salt.v = Repeat(97, SaltWidth - 1) \o <<233>>
    /\ concatenatedData = Repeat(1, 32)

----------------------------------------------------------------------------
DistinctMints(a) == \A i, j \in 1..Len(a) : a[i].mint = a[j].mint => i = j

MintsOf(a) == [i \in 1..Len(a) |-> a[i].mint]

WithSeeds(cd, a) == [cd EXCEPT !.seeds.a = a]

(* The sorted list the call that has just run produced *)
SortedByCall ==
    IF op = "sortSeeds" THEN result.obj.seeds.a ELSE cookedData.seeds.a

(* The output is ascending by unsigned byte-wise comparison of the mints and
   a rearrangement of the input. *)
C7_SortedRearrangement ==
    /\ AscendingMints(MintsOf(SortedByCall))
    /\ IsPermutationOf(SortedByCall, orig.seeds.a)

(* Every rearrangement of the input gives the same output. *)
C7_SameForEveryOrder ==
    \A q \in Rearrangements(orig.seeds.a) :
        /\ op = "sortSeeds" => sortSeeds(WithSeeds(orig, q)).value.seeds.a = SortedByCall
        /\ op = "validateCookedData"
           => /\ validateCookedData(WithSeeds(orig, q)).value.seeds.a = SortedByCall
              /\ derivePDAFromCookedData(WithSeeds(orig, q)).value
                    = derivePDAFromCookedData(orig).value

(* C7 as stated: for any seed list and any rearrangement of it, sortSeeds
   and the sorts of validateCookedData and derivePDAFromCookedData produce
   the same sequence of (mint, amount_u64) pairs, ascending by mint bytes and
   a rearrangement of the input.  Two seeds of the same mint keep the order
   the caller gave them, so the output depends on that order. *)
C7_OrderInvariant ==
    ( pc = "done" /\ op \in {"sortSeeds", "validateCookedData"} /\ result.how = "return" )
    => C7_SortedRearrangement /\ C7_SameForEveryOrder

(* C7, amended: the output is always ascending by mint bytes and a
   rearrangement of the input; it is the same for every rearrangement of the
   input when the mints of the list are pairwise distinct. *)
C7_OrderInvariantDistinctMints ==
    ( pc = "done" /\ op \in {"sortSeeds", "validateCookedData"} /\ result.how = "return" )
    => /\ C7_SortedRearrangement
       /\ DistinctMints(orig.seeds.a) => C7_SameForEveryOrder

(* sortSeeds has reordered three seeds of three mints. *)
C7_Witness ==
    /\ Done("sortSeeds") /\ result.how = "return"
    /\ Len(orig.seeds.a) = 3 /\ DistinctMints(orig.seeds.a)
    /\ result.obj.seeds.a # orig.seeds.a

----------------------------------------------------------------------------
(* data[from .. from+Len(bytes)-1] = bytes *)
HoldsAt(data, from, bytes) ==
    /\ Len(data) >= from + Len(bytes) - 1
    /\ \A i \in 1..Len(bytes) : data[from + i - 1] = bytes[i]

(* data holds, from `from` on, the length of bytes as a u32 and then bytes *)
HoldsPrefixedAt(data, from, bytes) ==
    /\ Len(data) >= from + 3
    /\ DecodeLE(SubSeq(data, from, from + 3)) = Len(bytes)
    /\ HoldsAt(data, from + 4, bytes)

(* The salt field of the payload after n quantities: the first 32 UTF-8
   bytes of the salt, zero where the salt has none. *)
SaltFieldAt(data, n, salt) ==
    \A i \in 1..SaltWidth : data[5 + 8 * n + i] = ByteAt(Utf8(salt), i)

(* C8: for a valid descriptor with N seeds the payload of createRecipe is
   byte 0x01, N as u32, the N quantities as u64 in ascending order of their
   mints, the 32-byte salt field (the first min(32, length) UTF-8 bytes of
   salt, then zeros), then name, symbol and gateway + metadataCid, each as
   UTF-8 behind its u32 length, and nothing else. *)
C8_CreatePayloadLayout ==
    ( Done("createRecipe") /\ result.how = "return" )
    => LET data == result.ix.data
           seeds == orig.seeds.a
           n == Len(seeds)
           name == Utf8(orig.name.v)
           symbol == Utf8(orig.symbol.v)
           uri == Utf8(IPFS_GATEWAY \o orig.metadataCid.v)
           nameAt == 5 + 8 * n + SaltWidth + 1
           symbolAt == nameAt + 4 + Len(name)
           uriAt == symbolAt + 4 + Len(symbol)
       IN  /\ Len(data) = 1 + 4 + 8 * n + 32 + (4 + Len(name)) + (4 + Len(symbol))
                          + (4 + Len(uri))
           /\ data[1] = 1
           /\ DecodeLE(SubSeq(data, 2, 5)) = n
           /\ \E p \in Bijections(n) :
                 /\ AscendingMints([i \in 1..n |-> seeds[p[i]].mint])
                 /\ \A i \in 1..n : PayloadAmounts(data, n)[i] = seeds[p[i]].amount_u64.n
           /\ SaltFieldAt(data, n, orig.salt.v)
           /\ HoldsPrefixedAt(data, nameAt, name)
           /\ HoldsPrefixedAt(data, symbolAt, symbol)
           /\ HoldsPrefixedAt(data, uriAt, uri)

(* createRecipe has returned an instruction for two seeds given in
   descending order and a salt longer than the salt field. *)
C8_Witness ==
    /\ Done("createRecipe") /\ result.how = "return"
    /\ orig.seeds.a = TwoSeeds
    /\ Len(Utf8(orig.salt.v)) > SaltWidth

(* C9: useRecipe throws for every option but 0x02 and 0x03, whatever the
   other arguments, and builds nothing; the payload of an instruction it
   returns is the option byte, N as u32, the N seed quantities as u64, the
   32-byte salt field of seedSalt and the converted quantity as u64:
   1 + 4 + 8N + 32 + 8 bytes. *)
C9_UsePayloadLayout ==
    Done("useRecipe")
    => /\ option \notin {2, 3}
          => /\ result.how = "throw"
             /\ result.err = "Invalid option. Must be 0x02 (cook) or 0x03 (uncook)."
             /\ result.ix = NoInstruction
       /\ result.how = "return"
          => LET data == result.ix.data
                 seeds == orig.seeds.a
                 n == Len(seeds)
             IN  /\ option \in {2, 3}
                 /\ Len(data) = 1 + 4 + 8 * n + 32 + 8
                 /\ data[1] = option
                 /\ DecodeLE(SubSeq(data, 2, 5)) = n
                 /\ \A i \in 1..n : PayloadAmounts(data, n)[i] = seeds[i].amount_u64.n
                 /\ SaltFieldAt(data, n, orig.seedSalt.v)
                 /\ HoldsAt(data, 5 + 8 * n + SaltWidth + 1,
                            SubSeq(toBaseUnits(orig.qty_requested, Decimals).value.mag, 1, 8))

(* useRecipe has returned an uncook instruction for a seedSalt longer than
   the salt field. *)
C9_Witness ==
    /\ Done("useRecipe") /\ result.how = "return"
    /\ option = OpUncook
    /\ Len(orig.seeds.a) = 2
    /\ Len(Utf8(orig.seedSalt.v)) > SaltWidth

----------------------------------------------------------------------------
(* A decimal string: digits, then possibly a point and digits *)
IsDecimalString(v) ==
    /\ v # <<>> /\ IsDigit(v[1])
    /\ \A i \in 1..Len(v) : IsDigit(v[i]) \/ v[i] = 46
    /\ \A i, j \in 1..Len(v) : v[i] = 46 /\ v[j] = 46 => i = j

PointAt(v) == IF \E i \in 1..Len(v) : v[i] = 46
              THEN CHOOSE i \in 1..Len(v) : v[i] = 46 ELSE Len(v) + 1

DigitsOf(v) == [i \in 1..Len(v) |-> v[i] - 48]

(* floor(v * 10^decimals) of a decimal string, computed on integers *)
ExactBaseUnits(v, decimals) ==
    LET int == DigitsOf(SubSeq(v, 1, PointAt(v) - 1))
        frac == DigitsOf(SubSeq(v, PointAt(v) + 1, Len(v)))
        scaled == BigTimesPow(BigFromDigits(int \o frac, BigZero), 10, decimals)
    IN  DivPow10(scaled, Len(frac)).q

(* C10: the converted quantity of the payload is floor(v * 10^6), computed
   exactly, for every non-negative decimal string v, and useRecipe throws
   when qty_requested holds no number at all.  The code multiplies in binary
   floating point: "4.1" gives 4099999. *)
C10_ExactBaseUnits ==
    ( /\ Done("useRecipe")
      /\ option \in {OpCook, OpUncook}
      /\ orig.seeds.a = TwoSeeds /\ orig.seedSalt = Str(Salt1) /\ orig.pda = RecipePDA
      /\ Len(tokenAccounts) = 2 * Len(orig.seeds.a) + 2 )
    => LET q == orig.qty_requested
           n == Len(orig.seeds.a)
       IN  /\ ( q.t = "string" /\ IsDecimalString(q.v) )
              => /\ result.how = "return"
                 /\ HoldsAt(result.ix.data, 5 + 8 * n + SaltWidth + 1,
                            SubSeq(ExactBaseUnits(q.v, Decimals), 1, 8))
           /\ ( q.t # "string" \/ \A i \in 1..Len(q.v) : ~IsDigit(q.v[i]) )
              => result.how = "throw"

----------------------------------------------------------------------------
(* A descriptor createRecipe must accept: one seed or more, every seed with
   an address for mint and a quantity, salt a string, metadataCid, name and
   symbol non-empty. *)
DescriptorValid(cd) ==
    /\ DescriptorValidButSeeds(cd)
    /\ cd.seeds.t = "array"
    /\ Len(cd.seeds.a) >= 1
    /\ \A i \in 1..Len(cd.seeds.a) :
          cd.seeds.a[i].mint.t = "key" /\ cd.seeds.a[i].amount_u64.t = "number"

(* The nine leading accounts of createRecipe as <<pubkey, signer, writable>>,
   for the recipe address given. *)
LeadingAccounts(recipe) ==
    << <<feePayer, TRUE, TRUE>>,
       <<FEE_ACCOUNT_PUBKEY, FALSE, TRUE>>,
       <<CONFIG_ACCOUNT, FALSE, FALSE>>,
       <<recipe, FALSE, TRUE>>,
       <<Key("metadata", recipe.b), FALSE, TRUE>>,
       <<SystemProgramId, FALSE, FALSE>>,
       <<TOKEN_PROGRAM_ID, FALSE, FALSE>>,
       <<SYSVAR_RENT_PUBKEY, FALSE, FALSE>>,
       <<METADATA_PROGRAM_ID, FALSE, FALSE>> >>

(* C11: for a valid descriptor with N seeds createRecipe returns exactly
   9 + N accounts: payer (signer, writable), fee collector (writable), config
   (read-only), recipe address (writable), metadata address (writable),
   system program, token program, rent sysvar and metadata program
   (read-only), then the N seed mints, read-only and no signers, ascending
   by their bytes and a rearrangement of the caller's mints; the payer is
   the only signer. *)
C11_CreateAccountList ==
    (Done("createRecipe") /\ DescriptorValid(orig))
    => LET keys == result.ix.keys
           n == Len(orig.seeds.a)
           recipe == derivePDAFromCookedData(orig).value.pda
           lead == LeadingAccounts(recipe)
       IN  /\ result.how = "return"
           /\ Len(keys) = 9 + n
           /\ \A i \in 1..9 :
                 /\ keys[i].pubkey = lead[i][1]
                 /\ keys[i].isSigner = lead[i][2]
                 /\ keys[i].isWritable = lead[i][3]
           /\ \A i \in 10..(9 + n) : ~keys[i].isSigner /\ ~keys[i].isWritable
           /\ AscendingMints(KeyMints(keys, 9, n))
           /\ IsPermutationOf(KeyMints(keys, 9, n), MintsOf(orig.seeds.a))
           /\ \A i \in 1..Len(keys) : keys[i].isSigner <=> i = 1

(* createRecipe has returned for three seeds handed over out of order *)
C11_Witness ==
    /\ Done("createRecipe")
    /\ DescriptorValid(orig)
    /\ Len(orig.seeds.a) = 3
    /\ ~AscendingMints(MintsOf(orig.seeds.a))
    /\ result.how = "return"
    /\ Len(result.ix.keys) = 12

----------------------------------------------------------------------------
(* C12: a createRecipe / validateCookedData call that throws leaves the
   caller's cookedData as it was handed over: the seeds in their original
   order and no pda added or overwritten.  The in-place sort of line 78 runs
   before derivePDAFromCookedData throws on a salt that is no string. *)
C12_FailureLeavesCallerData ==
    ( /\ pc = "done"
      /\ op \in {"createRecipe", "validateCookedData"}
      /\ result.how = "throw" )
    => /\ cookedData.seeds = orig.seeds
       /\ cookedData.pda = orig.pda

(* C12 for every failure but that of a salt that is present and no string:
   holds. *)
C12_UnchangedButSaltNotString ==
    orig.salt.t \in {"absent", "string"} => C12_FailureLeavesCallerData

(* C12 for the pda field alone: no failed call adds or overwrites it. *)
C12_FailureLeavesPda ==
    ( /\ pc = "done"
      /\ op \in {"createRecipe", "validateCookedData"}
      /\ result.how = "throw" )
    => cookedData.pda = orig.pda

====
